---- MODULE Spec2Model ----
(***************************************************************************)
(* Model of quantlab-cpp's backtest engine, indicators and strategy:       *)
(*   src/quantlab-cpp/src/backtest/backtest_engine.hpp  (Trade,            *)
(*       BacktestMetrics, Portfolio, BacktestEngine)                       *)
(*   src/quantlab-cpp/src/backtest/backtest_engine.cpp                     *)
(*       (BacktestEngine::calculate_final_metrics)                         *)
(*   src/quantlab-cpp/src/indicators/rolling_ema.hpp    (RollingEMA)       *)
(*   src/quantlab-cpp/src/indicators/rsi.hpp            (RSI)              *)
(*   src/quantlab-cpp/src/indicators/bollinger_bands.hpp (BollingerBands)  *)
(*   src/quantlab-cpp/src/strategy/mean_reversion_strategy.hpp             *)
(*       (MeanReversionStrategy)                                           *)
(*                                                                         *)
(* Number model.  The C++ fields are `int` and `double`.  Prices, cash and *)
(* trade values are integer-valued doubles far below 2^53, on which the    *)
(* double operations +, -, * are exact, so they are modelled as integers.  *)
(* The metrics are quotients; a double is modelled as a normalised         *)
(* fraction <<n, d>> with d >= 0, where d = 0 encodes the IEEE-754 special *)
(* values: <<1,0>> = +inf, <<-1,0>> = -inf, <<0,0>> = NaN.  Division by    *)
(* zero therefore yields what the build yields (inf or NaN), not an error. *)
(***************************************************************************)
EXTENDS Integers, Sequences, FiniteSets, TLC

(***************************************************************************)
(* Bounds and input sets                                                   *)
(***************************************************************************)
\* a caller trades while trade_history has fewer than MaxTrades entries and
\* records a daily value while daily_values has fewer than MaxDaily entries
MaxTrades == 3
MaxDaily == 2

StartingCapitals == {0, 1000, 1500}
Prices == {10, 15}
ShareCounts == {-50, 0, 100}
FinalPrices == {10, 15}
DailyValues == {0, 900, 1000, 1100}

\* a caller who trades in lots: the capital the engine starts with and the
\* share counts of the orders
LotCapital == 5000
LotSizes == {50, 100}

\* closing prices of the bars, and the prices fed to an indicator
Closes == {90, 100, 110}

\* the prices of the EMA scenario of the specification
ScenarioPrices == {10, 20, 30}

\* closing prices of the bars of a loaded history
BarCloses == {90, 100}

\* a caller of the strategy feeds prices to the indicators (by a quote or
\* by a loaded history) while fewer than MaxFed prices were fed since their
\* construction or last reset; a loaded history has at most MaxBars bars or
\* is the one long history of LongBars bars; a caller of the indicators
\* feeds them up to MaxUpdates prices
MaxFed == 3
MaxUpdates == 5
MaxBars == 4
LongBars == 42

(***************************************************************************)
(* double arithmetic as fractions with IEEE-754 special values              *)
(***************************************************************************)
Abs(x) == IF x < 0 THEN -x ELSE x

Sign(x) == IF x > 0 THEN 1 ELSE IF x < 0 THEN -1 ELSE 0

RECURSIVE GCD(_, _)
GCD(a, b) == IF b = 0 THEN a ELSE GCD(b, a % b)

Norm(n, d) ==
    IF d = 0 THEN <<Sign(n), 0>>
    ELSE LET g == GCD(Abs(n), Abs(d))
             s == IF d < 0 THEN -1 ELSE 1
         IN  <<(s * n) \div g, (s * d) \div g>>

R(i) == <<i, 1>>

NaN == <<0, 0>>

IsNaN(a) == a = NaN

RAdd(a, b) ==
    IF IsNaN(a) \/ IsNaN(b) THEN NaN
    ELSE IF a[2] = 0 /\ b[2] = 0 THEN (IF a = b THEN a ELSE NaN)
    ELSE IF a[2] = 0 THEN a
    ELSE IF b[2] = 0 THEN b
    ELSE LET g == GCD(a[2], b[2])
         IN  Norm(a[1] * (b[2] \div g) + b[1] * (a[2] \div g),
                  (a[2] \div g) * b[2])

RNeg(a) == <<-a[1], a[2]>>

RSub(a, b) == RAdd(a, RNeg(b))

RMul(a, b) ==
    IF IsNaN(a) \/ IsNaN(b) THEN NaN
    ELSE IF a[2] = 0 \/ b[2] = 0 THEN <<Sign(a[1]) * Sign(b[1]), 0>>
    ELSE LET g == GCD(Abs(a[1]), b[2])
             h == GCD(Abs(b[1]), a[2])
         IN  Norm((a[1] \div g) * (b[1] \div h),
                  (a[2] \div h) * (b[2] \div g))

RDiv(a, b) ==
    IF IsNaN(a) \/ IsNaN(b) THEN NaN
    ELSE IF a[2] = 0 \/ b[1] = 0
    THEN <<Sign(a[1]) * Sign(b[2]) * (IF b[1] < 0 THEN -1 ELSE 1), 0>>
    ELSE IF b[2] = 0 THEN R(0)
    ELSE LET g == GCD(Abs(a[1]), Abs(b[1]))
             h == GCD(a[2], b[2])
         IN  Norm((a[1] \div g) * (b[2] \div h),
                  (a[2] \div h) * (b[1] \div g))

RGt(a, b) ==
    IF IsNaN(a) \/ IsNaN(b) THEN FALSE
    ELSE IF a[2] = 0 /\ b[2] = 0 THEN a[1] > b[1]
    ELSE IF a[2] = 0 THEN a[1] > 0
    ELSE IF b[2] = 0 THEN b[1] < 0
    ELSE LET g == GCD(a[2], b[2])
         IN  a[1] * (b[2] \div g) > b[1] * (a[2] \div g)

RAbs(a) == <<Abs(a[1]), a[2]>>

RLt(a, b) == RGt(b, a)

RGe(a, b) == ~IsNaN(a) /\ ~IsNaN(b) /\ ~RGt(b, a)

RLe(a, b) == RGe(b, a)

\* std::min(a, b) is (b < a) ? b : a, so std::min(1.0, NaN) is 1.0
RMin(a, b) == IF RLt(b, a) THEN b ELSE a

\* the sum of a sequence; the additions are exact, so they are grouped in
\* halves, which keeps the evaluation of a long sum shallow
RECURSIVE RSum(_)
RSum(seq) ==
    IF seq = <<>> THEN R(0)
    ELSE IF Len(seq) = 1 THEN seq[1]
    ELSE LET half == Len(seq) \div 2
         IN  RAdd(RSum(SubSeq(seq, 1, half)),
                  RSum(SubSeq(seq, half + 1, Len(seq))))

\* F applied to the value of x; x is evaluated before F is entered, which
\* keeps the evaluation of a long loop shallow
Then(x, F(_)) == CHOOSE r \in {F(v) : v \in {x}} : TRUE

\* the largest r in lo..hi with r * r <= n, given lo * lo <= n
RECURSIVE ISqrtIn(_, _, _)
ISqrtIn(n, lo, hi) ==
    IF lo = hi THEN lo
    ELSE LET mid == (lo + hi + 1) \div 2
         IN  IF mid * mid <= n THEN ISqrtIn(n, mid, hi)
             ELSE ISqrtIn(n, lo, mid - 1)

ISqrt(n) == ISqrtIn(n, 0, IF n < 46340 THEN n ELSE 46340)

\* std::sqrt: the exact root when the fraction is a square of a fraction,
\* as it is for every window the bounded runs compute; any other root is
\* rounded down to a multiple of 1/SqrtGrid (std::sqrt rounds it to the
\* nearest double)
SqrtGrid == 100

RSqrt(a) ==
    IF IsNaN(a) \/ a[1] < 0 THEN NaN
    ELSE IF a[2] = 0 THEN a
    ELSE LET rn == ISqrt(a[1])
             rd == ISqrt(a[2])
         IN  IF rn * rn = a[1] /\ rd * rd = a[2] THEN <<rn, rd>>
             ELSE Norm(ISqrt((a[1] * SqrtGrid * SqrtGrid) \div a[2]), SqrtGrid)

(***************************************************************************)
(* State                                                                   *)
(***************************************************************************)
VARIABLES
    portfolio_,  \* BacktestEngine::portfolio_
    metrics_,    \* BacktestEngine::metrics_
    call,        \* the call that produced this state: its name, its arguments
                 \* and the cash and shares_held it started from
    strategy_,   \* a MeanReversionStrategy: its three indicators, its
                 \* thresholds and its historical_bars_
    ret,         \* the last call made on the strategy or its indicators:
                 \* its name, its argument and what it returned (for a
                 \* reset, the number of prices fed before it)
    fed          \* the prices fed to the three indicators since their
                 \* construction or last reset, oldest first

engineVars == <<portfolio_, metrics_, call>>

strategyVars == <<strategy_, ret, fed>>

vars == <<portfolio_, metrics_, call, strategy_, ret, fed>>

\* struct Trade; timestamp, confidence and reason are stored and never read
\* by the engine
Trade(action, price, shares, value) ==
    [action |-> action, price |-> price, shares |-> shares, value |-> value]

\* struct Portfolio with its default member initialisers; peak_value is
\* never written or read after construction
Portfolio ==
    [cash |-> 100000, shares_held |-> 0, last_buy_price |-> 0,
     trade_history |-> <<>>, daily_values |-> <<>>]

\* struct BacktestMetrics with its default member initialisers
BacktestMetrics ==
    [total_return_pct |-> R(0), annual_return_pct |-> R(0),
     sharpe_ratio |-> R(0), max_drawdown_pct |-> R(0),
     total_trades |-> 0, winning_trades |-> 0, losing_trades |-> 0,
     win_rate_pct |-> R(0), avg_win |-> R(0), avg_loss |-> R(0),
     profit_factor |-> R(0),
     starting_capital |-> 0, ending_capital |-> 0, max_capital |-> R(0),
     current_position_value |-> 0]

Call(op, price, shares) ==
    [op |-> op, price |-> price, shares |-> shares,
     cash0 |-> portfolio_.cash, shares0 |-> portfolio_.shares_held]

\* BacktestEngine::BacktestEngine(starting_capital)
EngineInit ==
    \E starting_capital \in StartingCapitals :
        /\ portfolio_ = [Portfolio EXCEPT !.cash = starting_capital]
        /\ metrics_ = [BacktestMetrics EXCEPT !.starting_capital = starting_capital]
        /\ call = [op |-> "new", price |-> 0, shares |-> 0,
                   cash0 |-> starting_capital, shares0 |-> 0]

(***************************************************************************)
(* Portfolio                                                               *)
(***************************************************************************)
get_total_value(p, current_price) == p.cash + (p.shares_held * current_price)

\* can_buy comparing the cash with the price of one share
can_buy_one_share(p, price, shares) == p.cash >= price

can_buy(p, price, shares) == p.cash >= (price * shares)

\* execute_buy recording the share price as the value of the trade
execute_buy_value_is_price(p, price, shares) ==
    IF can_buy(p, price, shares)
    THEN LET cost == price * shares IN
         [p EXCEPT !.cash = @ - cost,
                   !.shares_held = @ + shares,
                   !.last_buy_price = price,
                   !.trade_history = Append(@, Trade("BUY", price, shares, price))]
    ELSE p

\* the Portfolio after p.execute_buy(price, shares, confidence, reason)
execute_buy(p, price, shares) ==
    IF can_buy(p, price, shares)
    THEN LET cost == price * shares IN
         [p EXCEPT !.cash = @ - cost,
                   !.shares_held = @ + shares,
                   !.last_buy_price = price,
                   !.trade_history = Append(@, Trade("BUY", price, shares, cost))]
    ELSE p

\* execute_sell that only requires a non-negative position
execute_sell_any_position(p, price, shares) ==
    IF p.shares_held >= 0
    THEN LET proceeds == price * shares IN
         [p EXCEPT !.cash = @ + proceeds,
                   !.shares_held = @ - shares,
                   !.trade_history = Append(@, Trade("SELL", price, shares, proceeds))]
    ELSE p

\* execute_sell that records the trade and forgets to credit the proceeds
execute_sell_no_credit(p, price, shares) ==
    IF p.shares_held >= shares
    THEN LET proceeds == price * shares IN
         [p EXCEPT !.shares_held = @ - shares,
                   !.trade_history = Append(@, Trade("SELL", price, shares, proceeds))]
    ELSE p

\* execute_sell that empties the position whatever the share count
execute_sell_all(p, price, shares) ==
    IF p.shares_held >= shares
    THEN LET proceeds == price * shares IN
         [p EXCEPT !.cash = @ + proceeds,
                   !.shares_held = 0,
                   !.trade_history = Append(@, Trade("SELL", price, shares, proceeds))]
    ELSE p

\* the Portfolio after p.execute_sell(price, shares, confidence, reason)
execute_sell(p, price, shares) ==
    IF p.shares_held >= shares
    THEN LET proceeds == price * shares IN
         [p EXCEPT !.cash = @ + proceeds,
                   !.shares_held = @ - shares,
                   !.trade_history = Append(@, Trade("SELL", price, shares, proceeds))]
    ELSE p

Buy ==
    \E price \in Prices, shares \in ShareCounts :
        /\ Len(portfolio_.trade_history) < MaxTrades
        /\ portfolio_' = execute_buy(portfolio_, price, shares)
        /\ call' = Call("buy", price, shares)
        /\ UNCHANGED metrics_
        /\ UNCHANGED strategyVars

Sell ==
    \E price \in Prices, shares \in ShareCounts :
        /\ Len(portfolio_.trade_history) < MaxTrades
        /\ portfolio_' = execute_sell(portfolio_, price, shares)
        /\ call' = Call("sell", price, shares)
        /\ UNCHANGED metrics_
        /\ UNCHANGED strategyVars

\* a caller makes the two calls back to back:
\*   execute_buy(price, shares, ...); execute_sell(price, shares, ...)
BuyThenSell ==
    \E price \in Prices, shares \in ShareCounts :
        /\ Len(portfolio_.trade_history) < MaxTrades
        /\ portfolio_' = execute_sell(execute_buy(portfolio_, price, shares),
                                      price, shares)
        /\ call' = Call("buy_sell", price, shares)
        /\ UNCHANGED metrics_
        /\ UNCHANGED strategyVars

\* execute_buy and execute_sell called with the share counts of lots
BuyLot ==
    \E price \in Prices, shares \in LotSizes :
        /\ Len(portfolio_.trade_history) < MaxTrades
        /\ portfolio_' = execute_buy(portfolio_, price, shares)
        /\ call' = Call("buy", price, shares)
        /\ UNCHANGED metrics_
        /\ UNCHANGED strategyVars

SellLot ==
    \E price \in Prices, shares \in LotSizes :
        /\ Len(portfolio_.trade_history) < MaxTrades
        /\ portfolio_' = execute_sell(portfolio_, price, shares)
        /\ call' = Call("sell", price, shares)
        /\ UNCHANGED metrics_
        /\ UNCHANGED strategyVars

\* a caller appends a portfolio value through get_portfolio().daily_values
RecordDailyValue ==
    \E value \in DailyValues :
        /\ Len(portfolio_.daily_values) < MaxDaily
        /\ portfolio_' = [portfolio_ EXCEPT !.daily_values = Append(@, value)]
        /\ call' = Call("record", value, 0)
        /\ UNCHANGED metrics_
        /\ UNCHANGED strategyVars

(***************************************************************************)
(* BacktestEngine::calculate_final_metrics                                 *)
(***************************************************************************)
\* locals of the trade-cycle loop before its first iteration
CycleStart ==
    [current_position_cost |-> R(0), current_shares |-> 0,
     completed_trades |-> 0, winning_trades |-> 0, losing_trades |-> 0,
     total_wins |-> R(0), total_losses |-> R(0)]

\* the iteration with a sell that leaves the cost of the position as it is
CycleStep_cost_kept(c, trade) ==
    IF trade.action = "BUY"
    THEN [c EXCEPT !.current_position_cost = RAdd(@, R(trade.value)),
                   !.current_shares = @ + trade.shares]
    ELSE IF trade.action = "SELL" /\ c.current_shares > 0
    THEN LET avg_cost_per_share == RDiv(c.current_position_cost, R(c.current_shares))
             profit_loss == RMul(RSub(R(trade.price), avg_cost_per_share), R(trade.shares))
             counted ==
                 IF RGt(profit_loss, R(0))
                 THEN [c EXCEPT !.winning_trades = @ + 1,
                                !.total_wins = RAdd(@, profit_loss)]
                 ELSE [c EXCEPT !.losing_trades = @ + 1,
                                !.total_losses = RAdd(@, RAbs(profit_loss))]
         IN  [counted EXCEPT
                 !.completed_trades = @ + 1,
                 !.current_shares = @ - trade.shares]
    ELSE c

\* the iteration with a break-even sell counted as a win
CycleStep_breakeven_wins(c, trade) ==
    IF trade.action = "BUY"
    THEN [c EXCEPT !.current_position_cost = RAdd(@, R(trade.value)),
                   !.current_shares = @ + trade.shares]
    ELSE IF trade.action = "SELL" /\ c.current_shares > 0
    THEN LET avg_cost_per_share == RDiv(c.current_position_cost, R(c.current_shares))
             profit_loss == RMul(RSub(R(trade.price), avg_cost_per_share), R(trade.shares))
             shares_sold_ratio == RDiv(R(trade.shares), R(c.current_shares))
             counted ==
                 IF ~RGt(R(0), profit_loss)
                 THEN [c EXCEPT !.winning_trades = @ + 1,
                                !.total_wins = RAdd(@, profit_loss)]
                 ELSE [c EXCEPT !.losing_trades = @ + 1,
                                !.total_losses = RAdd(@, RAbs(profit_loss))]
         IN  [counted EXCEPT
                 !.completed_trades = @ + 1,
                 !.current_position_cost =
                     RSub(@, RMul(c.current_position_cost, shares_sold_ratio)),
                 !.current_shares = @ - trade.shares]
    ELSE c

\* one iteration of the loop over portfolio_.trade_history
CycleStep(c, trade) ==
    IF trade.action = "BUY"
    THEN [c EXCEPT !.current_position_cost = RAdd(@, R(trade.value)),
                   !.current_shares = @ + trade.shares]
    ELSE IF trade.action = "SELL" /\ c.current_shares > 0
    THEN LET avg_cost_per_share == RDiv(c.current_position_cost, R(c.current_shares))
             profit_loss == RMul(RSub(R(trade.price), avg_cost_per_share), R(trade.shares))
             shares_sold_ratio == RDiv(R(trade.shares), R(c.current_shares))
             counted ==
                 IF RGt(profit_loss, R(0))
                 THEN [c EXCEPT !.winning_trades = @ + 1,
                                !.total_wins = RAdd(@, profit_loss)]
                 ELSE [c EXCEPT !.losing_trades = @ + 1,
                                !.total_losses = RAdd(@, RAbs(profit_loss))]
         IN  [counted EXCEPT
                 !.completed_trades = @ + 1,
                 !.current_position_cost =
                     RSub(@, RMul(c.current_position_cost, shares_sold_ratio)),
                 !.current_shares = @ - trade.shares]
    ELSE c

RECURSIVE CycleWalk(_, _, _)
CycleWalk(c, history, i) ==
    IF i > Len(history) THEN c
    ELSE CycleWalk(CycleStep(c, history[i]), history, i + 1)

TradeCycles(history) == CycleWalk(CycleStart, history, 1)

\* one iteration of the loop over portfolio_.daily_values
DrawdownStep(d, value) ==
    LET peak == IF value > d.peak THEN value ELSE d.peak
        drawdown == RMul(RDiv(R(peak - value), R(peak)), R(100))
    IN  [peak |-> peak,
         max_drawdown_pct |->
             IF RGt(drawdown, d.max_drawdown_pct) THEN drawdown
             ELSE d.max_drawdown_pct]

RECURSIVE DrawdownWalk(_, _, _)
DrawdownWalk(d, values, i) ==
    IF i > Len(values) THEN d
    ELSE DrawdownWalk(DrawdownStep(d, values[i]), values, i + 1)

\* the walk started from Portfolio::peak_value's default instead of
\* the starting capital
MaxDrawdown_from_default_peak(starting_capital, values) ==
    DrawdownWalk([peak |-> 100000, max_drawdown_pct |-> R(0)],
                 values, 1).max_drawdown_pct

MaxDrawdown(starting_capital, values) ==
    DrawdownWalk([peak |-> starting_capital, max_drawdown_pct |-> R(0)],
                 values, 1).max_drawdown_pct

TotalReturnPct(ending_capital, starting_capital) ==
    RMul(RDiv(R(ending_capital - starting_capital), R(starting_capital)), R(100))

\* ending capital, position value and total return
CapitalMetrics(m, p, final_price) ==
    LET ending_capital == get_total_value(p, final_price)
    IN  [m EXCEPT
           !.ending_capital = ending_capital,
           !.current_position_value = p.shares_held * final_price,
           !.total_return_pct =
               TotalReturnPct(ending_capital, m.starting_capital)]

\* total_trades counting the completed cycles instead of the transactions
TradeCounts_cycles(m, p, c) ==
    [m EXCEPT !.total_trades = c.completed_trades,
              !.winning_trades = c.winning_trades,
              !.losing_trades = c.losing_trades]

\* the transaction count and the cycle counters
TradeCounts(m, p, c) ==
    [m EXCEPT !.total_trades = Len(p.trade_history),
              !.winning_trades = c.winning_trades,
              !.losing_trades = c.losing_trades]

\* profit_factor divided without the total_losses > 0 test
TradeStatistics_unguarded(m, c) ==
    IF c.completed_trades > 0
    THEN [m EXCEPT
            !.win_rate_pct =
                RMul(RDiv(R(c.winning_trades), R(c.completed_trades)), R(100)),
            !.avg_win =
                IF c.winning_trades > 0
                THEN RDiv(c.total_wins, R(c.winning_trades)) ELSE R(0),
            !.avg_loss =
                IF c.losing_trades > 0
                THEN RDiv(c.total_losses, R(c.losing_trades)) ELSE R(0),
            !.profit_factor = RDiv(c.total_wins, c.total_losses)]
    ELSE m

\* win_rate_pct taken over every transaction instead of the sell cycles
TradeStatistics_per_transaction(m, c) ==
    IF c.completed_trades > 0
    THEN [m EXCEPT
            !.win_rate_pct =
                RMul(RDiv(R(c.winning_trades), R(m.total_trades)), R(100)),
            !.avg_win =
                IF c.winning_trades > 0
                THEN RDiv(c.total_wins, R(c.winning_trades)) ELSE R(0),
            !.avg_loss =
                IF c.losing_trades > 0
                THEN RDiv(c.total_losses, R(c.losing_trades)) ELSE R(0),
            !.profit_factor =
                IF RGt(c.total_losses, R(0))
                THEN RDiv(c.total_wins, c.total_losses) ELSE R(0)]
    ELSE m

\* the trade statistics are assigned only when a cycle was completed
TradeStatistics(m, c) ==
    IF c.completed_trades > 0
    THEN [m EXCEPT
            !.win_rate_pct =
                RMul(RDiv(R(c.winning_trades), R(c.completed_trades)), R(100)),
            !.avg_win =
                IF c.winning_trades > 0
                THEN RDiv(c.total_wins, R(c.winning_trades)) ELSE R(0),
            !.avg_loss =
                IF c.losing_trades > 0
                THEN RDiv(c.total_losses, R(c.losing_trades)) ELSE R(0),
            !.profit_factor =
                IF RGt(c.total_losses, R(0))
                THEN RDiv(c.total_wins, c.total_losses) ELSE R(0)]
    ELSE m

DrawdownMetric(m, p) ==
    [m EXCEPT !.max_drawdown_pct = MaxDrawdown(m.starting_capital, p.daily_values)]

\* the Sharpe ratio is assigned only when the return exceeds 2%
SharpeRatio(m) ==
    IF RGt(m.total_return_pct, R(2))
    THEN [m EXCEPT !.sharpe_ratio = RDiv(RSub(m.total_return_pct, R(2)), R(15))]
    ELSE m

\* metrics_ after calculate_final_metrics(final_price) on portfolio p
calculate_final_metrics(m, p, final_price) ==
    LET c == TradeCycles(p.trade_history)
        m1 == CapitalMetrics(m, p, final_price)
        m2 == TradeCounts(m1, p, c)
        m3 == TradeStatistics(m2, c)
        m4 == DrawdownMetric(m3, p)
    IN  SharpeRatio(m4)

\* calculate_final_metrics that closes the position at the final price
CalculateFinalMetrics_liquidating ==
    \E final_price \in FinalPrices :
        /\ metrics_' = calculate_final_metrics(metrics_, portfolio_, final_price)
        /\ call' = Call("calc", final_price, 0)
        /\ portfolio_' = execute_sell(portfolio_, final_price,
                                      portfolio_.shares_held)
        /\ UNCHANGED strategyVars

\* calculate_final_metrics(final_price) reads portfolio_ through const
\* accessors and const references and assigns to metrics_ only
CalculateFinalMetrics ==
    \E final_price \in FinalPrices :
        /\ metrics_' = calculate_final_metrics(metrics_, portfolio_, final_price)
        /\ call' = Call("calc", final_price, 0)
        /\ UNCHANGED portfolio_
        /\ UNCHANGED strategyVars

(***************************************************************************)
(* indicators::RollingEMA                                                  *)
(***************************************************************************)
smoothing_factor(period) == RDiv(R(2), R(period + 1))

\* RollingEMA::RollingEMA(period)
RollingEMA(period) ==
    [alpha_ |-> smoothing_factor(period), initialized_ |-> FALSE,
     current_ema_ |-> R(0)]

\* update that applies the smoothing formula to the first price as well
RollingEMA_update_no_bootstrap(e, price) ==
    [e EXCEPT !.current_ema_ =
                  RAdd(RMul(e.alpha_, price),
                       RMul(RSub(R(1), e.alpha_), e.current_ema_)),
              !.initialized_ = TRUE]

\* the RollingEMA after e.update(price); update returns its current_ema_
RollingEMA_update(e, price) ==
    IF ~e.initialized_
    THEN [e EXCEPT !.current_ema_ = price, !.initialized_ = TRUE]
    ELSE [e EXCEPT !.current_ema_ =
              RAdd(RMul(e.alpha_, price),
                   RMul(RSub(R(1), e.alpha_), e.current_ema_))]

RollingEMA_value(e) == e.current_ema_

RollingEMA_reset(e) ==
    [e EXCEPT !.current_ema_ = R(0), !.initialized_ = FALSE]

RollingEMA_is_initialized(e) == e.initialized_

(***************************************************************************)
(* indicators::RSI                                                         *)
(***************************************************************************)
\* RSI::RSI(period)
RSI(period) ==
    [gains_ema_ |-> RollingEMA(period), losses_ema_ |-> RollingEMA(period),
     previous_price_ |-> R(0), current_rsi_ |-> R(50),
     initialized_ |-> FALSE]

\* current_rsi_ from the two averages
RelativeStrengthIndex(avg_gain, avg_loss) ==
    IF avg_loss = R(0) /\ avg_gain = R(0) THEN R(50)
    ELSE IF avg_loss = R(0) THEN R(100)
    ELSE LET rs == RDiv(avg_gain, avg_loss)
         IN  RSub(R(100), RDiv(R(100), RAdd(R(1), rs)))

\* update feeding the signed change to the loss average
RSI_update_signed_loss(r, price) ==
    IF ~r.initialized_
    THEN [r EXCEPT !.previous_price_ = price, !.initialized_ = TRUE]
    ELSE LET change == RSub(price, r.previous_price_)
             gain == IF RGt(change, R(0)) THEN change ELSE R(0)
             gains == RollingEMA_update(r.gains_ema_, gain)
             losses == RollingEMA_update(r.losses_ema_, change)
         IN  [r EXCEPT
                !.gains_ema_ = gains,
                !.losses_ema_ = losses,
                !.current_rsi_ =
                    RelativeStrengthIndex(RollingEMA_value(gains),
                                          RollingEMA_value(losses)),
                !.previous_price_ = price]

\* update that stores previous_price_ on the first call only
RSI_update_first_price_kept(r, price) ==
    IF ~r.initialized_
    THEN [r EXCEPT !.previous_price_ = price, !.initialized_ = TRUE]
    ELSE LET change == RSub(price, r.previous_price_)
             gain == IF RGt(change, R(0)) THEN change ELSE R(0)
             loss == IF RLt(change, R(0)) THEN RNeg(change) ELSE R(0)
             gains == RollingEMA_update(r.gains_ema_, gain)
             losses == RollingEMA_update(r.losses_ema_, loss)
         IN  [r EXCEPT
                !.gains_ema_ = gains,
                !.losses_ema_ = losses,
                !.current_rsi_ =
                    RelativeStrengthIndex(RollingEMA_value(gains),
                                          RollingEMA_value(losses))]

\* the RSI after r.update(price); update returns its current_rsi_
RSI_update(r, price) ==
    IF ~r.initialized_
    THEN [r EXCEPT !.previous_price_ = price, !.initialized_ = TRUE]
    ELSE LET change == RSub(price, r.previous_price_)
             gain == IF RGt(change, R(0)) THEN change ELSE R(0)
             loss == IF RLt(change, R(0)) THEN RNeg(change) ELSE R(0)
             gains == RollingEMA_update(r.gains_ema_, gain)
             losses == RollingEMA_update(r.losses_ema_, loss)
         IN  [r EXCEPT
                !.gains_ema_ = gains,
                !.losses_ema_ = losses,
                !.current_rsi_ =
                    RelativeStrengthIndex(RollingEMA_value(gains),
                                          RollingEMA_value(losses)),
                !.previous_price_ = price]

RSI_value(r) == r.current_rsi_

\* reset that leaves the two averages as they are
RSI_reset_keeps_averages(r) ==
    [r EXCEPT !.previous_price_ = R(0),
              !.current_rsi_ = R(50),
              !.initialized_ = FALSE]

RSI_reset(r) ==
    [r EXCEPT !.gains_ema_ = RollingEMA_reset(@),
              !.losses_ema_ = RollingEMA_reset(@),
              !.previous_price_ = R(0),
              !.current_rsi_ = R(50),
              !.initialized_ = FALSE]

RSI_is_initialized(r) == r.initialized_

(***************************************************************************)
(* indicators::BollingerBands                                              *)
(***************************************************************************)
BollingerBandsResult(upper_band, middle_band, lower_band) ==
    [upper_band |-> upper_band, middle_band |-> middle_band,
     lower_band |-> lower_band]

\* BollingerBands::BollingerBands(period, std_dev_multiplier)
BollingerBands(period, std_dev_multiplier) ==
    [period_ |-> period, std_dev_multiplier_ |-> std_dev_multiplier,
     price_history_ |-> <<>>,
     current_bands_ |-> BollingerBandsResult(R(0), R(0), R(0)),
     initialized_ |-> FALSE]

\* price_history_ after push_back(price) and the pop_front of a window
\* longer than period_
PushPrice(b, price) ==
    LET pushed == Append(b.price_history_, price)
    IN  IF Len(pushed) > b.period_ THEN Tail(pushed) ELSE pushed

SquaredDiffs(window, sma) ==
    [i \in 1..Len(window) |->
        LET diff == RSub(window[i], sma) IN RMul(diff, diff)]

VarianceSum(window, sma) == RSum(SquaredDiffs(window, sma))

\* the bands over a full window, with divisor n in the variance
BandsOver(b, window, n) ==
    LET sma == RDiv(RSum(window), R(b.period_))
        std_dev == RSqrt(RDiv(VarianceSum(window, sma), R(n)))
    IN  BollingerBandsResult(
            RAdd(sma, RMul(b.std_dev_multiplier_, std_dev)),
            sma,
            RSub(sma, RMul(b.std_dev_multiplier_, std_dev)))

\* update with the sample variance (divisor period_ - 1)
BollingerBands_update_sample_variance(b, price) ==
    LET window == PushPrice(b, price)
    IN  IF Len(window) < b.period_
        THEN [b EXCEPT !.price_history_ = window]
        ELSE [b EXCEPT !.price_history_ = window,
                       !.current_bands_ = BandsOver(b, window, b.period_ - 1),
                       !.initialized_ = TRUE]

\* update that never evicts the oldest price
BollingerBands_update_no_eviction(b, price) ==
    LET window == Append(b.price_history_, price)
    IN  IF Len(window) < b.period_
        THEN [b EXCEPT !.price_history_ = window]
        ELSE [b EXCEPT !.price_history_ = window,
                       !.current_bands_ = BandsOver(b, window, b.period_),
                       !.initialized_ = TRUE]

\* the BollingerBands after b.update(price)
BollingerBands_update(b, price) ==
    LET window == PushPrice(b, price)
    IN  IF Len(window) < b.period_
        THEN [b EXCEPT !.price_history_ = window]
        ELSE [b EXCEPT !.price_history_ = window,
                       !.current_bands_ = BandsOver(b, window, b.period_),
                       !.initialized_ = TRUE]

\* what b.update(price) returns: zeros while the window is short, then
\* the new current_bands_
BollingerBands_update_result(b, price) ==
    IF Len(PushPrice(b, price)) < b.period_
    THEN BollingerBandsResult(R(0), R(0), R(0))
    ELSE BollingerBands_update(b, price).current_bands_

BollingerBands_value(b) == b.current_bands_

BollingerBands_reset(b) ==
    [b EXCEPT !.price_history_ = <<>>,
              !.current_bands_ = BollingerBandsResult(R(0), R(0), R(0)),
              !.initialized_ = FALSE]

BollingerBands_is_initialized(b) == b.initialized_

(***************************************************************************)
(* strategy::MeanReversionStrategy                                         *)
(***************************************************************************)
\* the arguments of the full constructor
Config(ema_period, rsi_period, bb_period, bb_std_dev, rsi_oversold, rsi_overbought, confidence) ==
    [ema_period |-> ema_period, rsi_period |-> rsi_period,
     bb_period |-> bb_period, bb_std_dev |-> bb_std_dev,
     rsi_oversold |-> rsi_oversold, rsi_overbought |-> rsi_overbought,
     confidence |-> confidence]

\* the parameters of the simplified constructor
DefaultConfig == Config(20, 14, 20, R(2), 30, 70, <<13, 20>>)

\* the strategies explored: short periods with the default thresholds, a
\* half-deviation band, the default band period, and thresholds under
\* which both RSI tests can hold at once
Configs ==
    {Config(3, 3, 2, R(2), 30, 70, <<13, 20>>),
     Config(1, 1, 2, <<1, 2>>, 30, 70, <<13, 20>>),
     Config(3, 3, 20, R(2), 30, 70, <<13, 20>>),
     Config(3, 3, 2, <<1, 2>>, 60, 40, <<1, 2>>)}

\* MeanReversionStrategy::MeanReversionStrategy(ema_period, ...)
MeanReversionStrategy(c) ==
    [ema_ |-> RollingEMA(c.ema_period),
     rsi_ |-> RSI(c.rsi_period),
     bb_ |-> BollingerBands(c.bb_period, c.bb_std_dev),
     rsi_oversold_threshold_ |-> c.rsi_oversold,
     rsi_overbought_threshold_ |-> c.rsi_overbought,
     confidence_threshold_ |-> c.confidence,
     historical_bars_ |-> <<>>]

Ret(op, arg, out) == [op |-> op, arg |-> arg, out |-> out]

StrategyInit ==
    \E c \in Configs :
        /\ strategy_ = MeanReversionStrategy(c)
        /\ ret = Ret("new", c, <<>>)
        /\ fed = <<>>

\* ema_.update(price); rsi_.update(price); bb_.update(price)
UpdateIndicators(s, price) ==
    [s EXCEPT !.ema_ = RollingEMA_update(@, price),
              !.rsi_ = RSI_update(@, price),
              !.bb_ = BollingerBands_update(@, price)]

\* ema_.reset(); rsi_.reset(); bb_.reset()
ResetAll(s) ==
    [s EXCEPT !.ema_ = RollingEMA_reset(@),
              !.rsi_ = RSI_reset(@),
              !.bb_ = BollingerBands_reset(@)]

\* struct StrategyResult
StrategyResult(signal, confidence, reason, current_price, ema_value, rsi_value, bb_upper, bb_middle, bb_lower) ==
    [signal |-> signal, confidence |-> confidence, reason |-> reason,
     current_price |-> current_price, ema_value |-> ema_value,
     rsi_value |-> rsi_value, bb_upper |-> bb_upper,
     bb_middle |-> bb_middle, bb_lower |-> bb_lower]

\* set_confidence_threshold without the upper limit
set_confidence_threshold_unlimited(s, threshold) ==
    IF RGt(threshold, R(0))
    THEN [s EXCEPT !.confidence_threshold_ = threshold]
    ELSE s

\* the strategy after s.set_confidence_threshold(threshold)
set_confidence_threshold(s, threshold) ==
    IF RGt(threshold, R(0)) /\ RLe(threshold, R(1))
    THEN [s EXCEPT !.confidence_threshold_ = threshold]
    ELSE s

\* the weights of the four factors of calculate_confidence
rsi_weight == <<7, 20>>
bb_weight == <<3, 10>>
trend_weight == <<1, 5>>
vol_weight == <<3, 20>>

\* factor 1: RSI momentum strength
rsi_score(rsi) ==
    RMin(R(1),
         IF RLe(rsi, R(30)) THEN RDiv(RSub(R(30), rsi), R(30))
         ELSE IF RGe(rsi, R(70)) THEN RDiv(RSub(rsi, R(70)), R(30))
         ELSE R(0))

\* factor 2: Bollinger band extremes
bb_score(price, bb_upper, bb_lower) ==
    LET bb_width == RSub(bb_upper, bb_lower)
    IN  IF RGt(bb_width, R(0))
        THEN RMin(R(1),
                  IF RLt(price, bb_lower)
                  THEN RDiv(RSub(bb_lower, price), bb_width)
                  ELSE IF RGt(price, bb_upper)
                  THEN RDiv(RSub(price, bb_upper), bb_width)
                  ELSE R(0))
        ELSE R(0)

\* factor 3: trend context
trend_score(price, ema) ==
    LET price_vs_ema == RDiv(RSub(price, ema), ema)
    IN  RMin(R(1), RMul(RAbs(price_vs_ema), R(10)))

\* the volatility factor without its cap at 1
vol_score_uncapped(bb_upper, bb_middle, bb_lower) ==
    LET bb_width == RSub(bb_upper, bb_lower)
    IN  IF RGt(bb_width, R(0)) /\ RGt(bb_middle, R(0))
        THEN RMul(RDiv(bb_width, bb_middle), R(20))
        ELSE R(0)

\* factor 4: volatility regime
vol_score(bb_upper, bb_middle, bb_lower) ==
    LET bb_width == RSub(bb_upper, bb_lower)
    IN  IF RGt(bb_width, R(0)) /\ RGt(bb_middle, R(0))
        THEN RMin(R(1), RMul(RDiv(bb_width, bb_middle), R(20)))
        ELSE R(0)

calculate_confidence(price, ema, rsi, bb_upper, bb_middle, bb_lower) ==
    LET total_score ==
            RAdd(RAdd(RAdd(RMul(rsi_score(rsi), rsi_weight),
                           RMul(bb_score(price, bb_upper, bb_lower),
                                bb_weight)),
                      RMul(trend_score(price, ema), trend_weight)),
                 RMul(vol_score(bb_upper, bb_middle, bb_lower), vol_weight))
        total_weight ==
            RAdd(RAdd(RAdd(rsi_weight, bb_weight), trend_weight), vol_weight)
        weighted_confidence ==
            IF RGt(total_weight, R(0)) THEN RDiv(total_score, total_weight)
            ELSE R(0)
    IN  RAdd(<<1, 2>>, RMul(weighted_confidence, <<9, 20>>))

\* the decision with the overbought test made first
DecideSignal_sell_first(s, rsi_value, confidence) ==
    IF RGt(rsi_value, R(s.rsi_overbought_threshold_))
           /\ RGe(confidence, s.confidence_threshold_)
    THEN "SELL"
    ELSE IF RLt(rsi_value, R(s.rsi_oversold_threshold_))
           /\ RGe(confidence, s.confidence_threshold_)
    THEN "BUY"
    ELSE "HOLD"

\* the decision of generate_signal and of backtest
DecideSignal(s, rsi_value, confidence) ==
    IF RLt(rsi_value, R(s.rsi_oversold_threshold_))
           /\ RGe(confidence, s.confidence_threshold_)
    THEN "BUY"
    ELSE IF RGt(rsi_value, R(s.rsi_overbought_threshold_))
           /\ RGe(confidence, s.confidence_threshold_)
    THEN "SELL"
    ELSE "HOLD"

\* the StrategyResult for a price the three indicators of s were just
\* updated with; bands is what bb_.update returned
ResultFor(s, price, bands, reasons) ==
    LET ema_value == RollingEMA_value(s.ema_)
        rsi_value == RSI_value(s.rsi_)
        confidence ==
            calculate_confidence(price, ema_value, rsi_value,
                                 bands.upper_band, bands.middle_band,
                                 bands.lower_band)
        signal == DecideSignal(s, rsi_value, confidence)
    IN  StrategyResult(signal, confidence, reasons[signal], price,
                       ema_value, rsi_value, bands.upper_band,
                       bands.middle_band, bands.lower_band)

\* struct Quote; an optional quote is a sequence of at most one Quote
Quote(bid_price, ask_price) ==
    [bid_price |-> bid_price, ask_price |-> ask_price]

mid_price(q) == RDiv(RAdd(R(q.bid_price), R(q.ask_price)), R(2))

\* the reason texts up to their numbers
SignalReasons ==
    [BUY |-> "INSTITUTIONAL BUY", SELL |-> "INSTITUTIONAL SELL",
     HOLD |-> "HOLD: Confidence"]

BacktestReasons == [BUY |-> "BUY", SELL |-> "SELL", HOLD |-> "HOLD"]

\* a default-constructed StrategyResult: signal NONE, confidence 0, empty
\* reason, and six doubles that are not initialised (all read as u here)
DefaultResult(u) == StrategyResult("NONE", R(0), "", u, u, u, u, u, u)

\* what generate_signal returns without a quote, were the three
\* assignments to the default result left out
NoQuoteResult_default(u) == DefaultResult(u)

\* what generate_signal returns without a quote
NoQuoteResult(u) ==
    [DefaultResult(u) EXCEPT !.signal = "HOLD", !.confidence = R(0),
                             !.reason = "No quote data available"]

\* generate_signal deciding on the RSI alone, without the confidence test
generate_signal_rsi_only(s, quote_opt, u) ==
    IF quote_opt = <<>>
    THEN [s |-> s, result |-> NoQuoteResult(u)]
    ELSE LET latest_price == mid_price(quote_opt[1])
             bb_result == BollingerBands_update_result(s.bb_, latest_price)
             updated == UpdateIndicators(s, latest_price)
             result == ResultFor(updated, latest_price, bb_result,
                                 SignalReasons)
         IN  [s |-> updated,
              result |->
                  [result EXCEPT !.signal =
                      IF RLt(result.rsi_value, R(s.rsi_oversold_threshold_))
                      THEN "BUY"
                      ELSE IF RGt(result.rsi_value,
                                  R(s.rsi_overbought_threshold_))
                      THEN "SELL"
                      ELSE "HOLD"]]

\* s.generate_signal(symbol) when get_latest_quote returns quote_opt: the
\* strategy afterwards and the result returned
generate_signal(s, quote_opt, u) ==
    IF quote_opt = <<>>
    THEN [s |-> s, result |-> NoQuoteResult(u)]
    ELSE LET latest_price == mid_price(quote_opt[1])
             bb_result == BollingerBands_update_result(s.bb_, latest_price)
             updated == UpdateIndicators(s, latest_price)
         IN  [s |-> updated,
              result |-> ResultFor(updated, latest_price, bb_result,
                                   SignalReasons)]

\* the strategy after the closes were fed in order to its indicators: the
\* first half of the closes, then the second half
RECURSIVE FeedAll(_, _)
FeedAll(s, closes) ==
    IF closes = <<>> THEN s
    ELSE IF Len(closes) = 1 THEN UpdateIndicators(s, closes[1])
    ELSE LET half == Len(closes) \div 2
         IN  Then(FeedAll(s, SubSeq(closes, 1, half)),
                  LAMBDA fed_half :
                      FeedAll(fed_half,
                              SubSeq(closes, half + 1, Len(closes))))

Min(a, b) == IF b < a THEN b ELSE a

\* the warm-up length as half of the bars, without the limit
warmup_periods_half(bars) == Len(bars) \div 2

WarmupLimit == 20

\* warmup_periods of backtest()
warmup_periods(bars) == Min(WarmupLimit, Len(bars) \div 2)

\* the signal loop of backtest() over bars i..j: the strategy afterwards
\* and the results pushed, in order; the first half of the bars, then the
\* second half
RECURSIVE SignalLoop(_, _, _, _)
SignalLoop(s, bars, i, j) ==
    IF i > j THEN [s |-> s, results |-> <<>>]
    ELSE IF i = j
    THEN LET close == bars[i]
             bb_result == BollingerBands_update_result(s.bb_, close)
             updated == UpdateIndicators(s, close)
         IN  [s |-> updated,
              results |-> <<ResultFor(updated, close, bb_result,
                                      BacktestReasons)>>]
    ELSE LET mid == (i + j) \div 2
         IN  Then(SignalLoop(s, bars, i, mid),
                  LAMBDA left :
                      Then(SignalLoop(left.s, bars, mid + 1, j),
                           LAMBDA right :
                               [s |-> right.s,
                                results |-> left.results \o right.results]))

\* backtest() without the three reset calls
backtest_no_reset(s) ==
    IF s.historical_bars_ = <<>>
    THEN [s |-> s, results |-> <<>>]
    ELSE LET bars == s.historical_bars_
             w == warmup_periods(bars)
             warmed == FeedAll(s, SubSeq(bars, 1, w))
         IN  SignalLoop(warmed, bars, w + 1, Len(bars))

\* s.backtest(): the strategy afterwards and the results returned
backtest(s) ==
    IF s.historical_bars_ = <<>>
    THEN [s |-> s, results |-> <<>>]
    ELSE LET bars == s.historical_bars_
             w == warmup_periods(bars)
             warmed == FeedAll(ResetAll(s), SubSeq(bars, 1, w))
         IN  SignalLoop(warmed, bars, w + 1, Len(bars))

\* s.load_historical_data / s.load_aggregated_historical_data when the
\* client returns bars (given by their closes)
load_historical_data(s, bars) ==
    FeedAll([s EXCEPT !.historical_bars_ = bars], bars)

\* one price is fed to the three indicators; out holds what the three
\* update calls return
FeedPrice ==
    \E close \in Closes :
        LET price == R(close) IN
        /\ Len(fed) < MaxUpdates
        /\ strategy_' = UpdateIndicators(strategy_, price)
        /\ ret' = Ret("update", price,
                      [ema |-> RollingEMA_value(strategy_'.ema_),
                       rsi |-> RSI_value(strategy_'.rsi_),
                       bb |-> BollingerBands_update_result(strategy_.bb_,
                                                           price)])
        /\ fed' = Append(fed, price)
        /\ UNCHANGED engineVars

\* one price of the EMA scenario is fed to the three indicators
FeedScenarioPrice ==
    \E close \in ScenarioPrices :
        LET price == R(close) IN
        /\ Len(fed) < MaxUpdates
        /\ strategy_' = UpdateIndicators(strategy_, price)
        /\ ret' = Ret("update", price,
                      [ema |-> RollingEMA_value(strategy_'.ema_),
                       rsi |-> RSI_value(strategy_'.rsi_),
                       bb |-> BollingerBands_update_result(strategy_.bb_,
                                                           price)])
        /\ fed' = Append(fed, price)
        /\ UNCHANGED engineVars

\* the three indicators are reset; arg records how many prices they had
\* been fed
ResetIndicators ==
    /\ strategy_' = ResetAll(strategy_)
    /\ ret' = Ret("reset", Len(fed), <<>>)
    /\ fed' = <<>>
    /\ UNCHANGED engineVars

(***************************************************************************)
(* Calls on the strategy                                                   *)
(***************************************************************************)
RECURSIVE SeqsUpTo(_, _)
SeqsUpTo(S, n) ==
    IF n = 0 THEN {<<>>}
    ELSE LET shorter == SeqsUpTo(S, n - 1)
         IN  shorter \cup {Append(q, x) : q \in shorter, x \in S}

\* the histories the client returns: every sequence of up to MaxBars bars
\* closing at 90 or 100, and LongBars bars closing at 100
Histories ==
    {[i \in 1..Len(h) |-> R(h[i])] : h \in SeqsUpTo(BarCloses, MaxBars)}
        \cup {[i \in 1..LongBars |-> R(100)]}

\* what get_latest_quote returns: no quote, or a quote with these bid and
\* ask prices
OptionalQuotes ==
    {<<>>} \cup {<<Quote(q[1], q[2])>> : q \in {<<89, 91>>, <<100, 101>>}}

\* the arguments given to set_confidence_threshold
Thresholds == {R(0), <<9, 10>>, R(1), <<3, 2>>}

\* values an uninitialised double may be read as
Indeterminate == {R(0), NaN}

\* a history is loaded into fresh indicators, or into indicators that have
\* seen at most MaxFed prices with it: the averages of older price changes
\* decay into fractions beyond the 32-bit integers they are computed with
LoadHistory ==
    \E bars \in Histories :
        /\ Len(fed) + Len(bars) <= MaxFed \/ fed = <<>>
        /\ strategy_' = load_historical_data(strategy_, bars)
        /\ ret' = Ret("load", bars, <<>>)
        /\ fed' = fed \o bars
        /\ UNCHANGED engineVars

SetConfidenceThreshold ==
    \E threshold \in Thresholds :
        /\ strategy_' = set_confidence_threshold(strategy_, threshold)
        /\ ret' = Ret("set_confidence_threshold", threshold, <<>>)
        /\ UNCHANGED fed
        /\ UNCHANGED engineVars

GenerateSignal ==
    \E quote_opt \in OptionalQuotes, u \in Indeterminate :
        LET r == generate_signal(strategy_, quote_opt, u) IN
        /\ quote_opt = <<>> \/ Len(fed) < MaxFed
        /\ strategy_' = r.s
        /\ ret' = Ret("generate_signal", quote_opt, <<r.result>>)
        /\ fed' = IF quote_opt = <<>> THEN fed
                  ELSE Append(fed, mid_price(quote_opt[1]))
        /\ UNCHANGED engineVars

Backtest ==
    LET r == backtest(strategy_) IN
    /\ strategy_' = r.s
    /\ ret' = Ret("backtest", strategy_.historical_bars_, r.results)
    /\ fed' = IF strategy_.historical_bars_ = <<>> THEN fed
              ELSE strategy_.historical_bars_
    /\ UNCHANGED engineVars

(***************************************************************************)
(* Specifications                                                          *)
(***************************************************************************)
\* BacktestEngine::BacktestEngine() with its default starting capital
EngineDefault ==
    /\ portfolio_ = Portfolio
    /\ metrics_ = [BacktestMetrics EXCEPT !.starting_capital = 100000]
    /\ call = [op |-> "new", price |-> 0, shares |-> 0,
               cash0 |-> 100000, shares0 |-> 0]

\* MeanReversionStrategy::MeanReversionStrategy(client)
StrategyDefault ==
    /\ strategy_ = MeanReversionStrategy(DefaultConfig)
    /\ ret = Ret("new", DefaultConfig, <<>>)
    /\ fed = <<>>

Init == EngineInit /\ StrategyInit

\* an engine beside a strategy that is never called
InitEngine == EngineInit /\ StrategyDefault

\* a strategy beside an engine that is never called
InitStrategy == EngineDefault /\ StrategyInit

Next ==
    \/ Buy
    \/ Sell
    \/ BuyThenSell
    \/ BuyLot
    \/ SellLot
    \/ RecordDailyValue
    \/ CalculateFinalMetrics
    \/ FeedPrice
    \/ FeedScenarioPrice
    \/ ResetIndicators
    \/ LoadHistory
    \/ SetConfidenceThreshold
    \/ GenerateSignal
    \/ Backtest

Spec == Init /\ [][Next]_vars

(***************************************************************************)
(* execute_buy and execute_sell neither read nor write daily_values and    *)
(* metrics_, TradeCycles reads trade_history only and MaxDrawdown reads    *)
(* daily_values and starting_capital only, so the engine is explored in    *)
(* three parts: the trading calls, the metrics over the trades, and the    *)
(* metrics over the recorded daily values.                                 *)
(***************************************************************************)
NextPortfolio ==
    \/ Buy
    \/ Sell
    \/ BuyThenSell

SpecPortfolio == InitEngine /\ [][NextPortfolio]_vars

NextMetrics ==
    \/ Buy
    \/ Sell
    \/ CalculateFinalMetrics

SpecMetrics == InitEngine /\ [][NextMetrics]_vars

NextDrawdown ==
    \/ RecordDailyValue
    \/ CalculateFinalMetrics

SpecDrawdown == InitEngine /\ [][NextDrawdown]_vars

\* BacktestEngine(5000) used by a caller who trades in lots
InitLots ==
    /\ portfolio_ = [Portfolio EXCEPT !.cash = LotCapital]
    /\ metrics_ = [BacktestMetrics EXCEPT !.starting_capital = LotCapital]
    /\ call = [op |-> "new", price |-> 0, shares |-> 0,
               cash0 |-> LotCapital, shares0 |-> 0]
    /\ StrategyDefault

NextLots ==
    \/ BuyLot
    \/ SellLot
    \/ CalculateFinalMetrics

SpecLots == InitLots /\ [][NextLots]_vars

\* the indicator classes on their own: prices fed one at a time to the
\* three indicators, and the three reset together
NextIndicators ==
    \/ FeedPrice
    \/ ResetIndicators

SpecIndicators == InitStrategy /\ [][NextIndicators]_vars

\* the indicators of the strategies explored and of the default strategy,
\* fed the prices of the EMA scenario
InitScenario ==
    /\ EngineDefault
    /\ \E c \in Configs \cup {DefaultConfig} :
           /\ strategy_ = MeanReversionStrategy(c)
           /\ ret = Ret("new", c, <<>>)
           /\ fed = <<>>

NextScenario ==
    \/ FeedScenarioPrice
    \/ ResetIndicators

SpecScenario == InitScenario /\ [][NextScenario]_vars

\* the strategy as its callers use it
NextStrategy ==
    \/ LoadHistory
    \/ SetConfidenceThreshold
    \/ GenerateSignal
    \/ Backtest

SpecStrategy == InitStrategy /\ [][NextStrategy]_vars

\* the strategy with the thresholds it was constructed with: histories are
\* loaded, quotes arrive and backtests are run
NextBacktest ==
    \/ LoadHistory
    \/ GenerateSignal
    \/ Backtest

SpecBacktest == InitStrategy /\ [][NextBacktest]_vars

TypeOK ==
    /\ portfolio_.cash \in Int
    /\ portfolio_.shares_held \in Int
    /\ Len(portfolio_.trade_history) <= MaxTrades + 1
    /\ Len(portfolio_.daily_values) <= MaxDaily

(***************************************************************************)
(* Properties of Portfolio::execute_buy / Portfolio::execute_sell          *)
(***************************************************************************)
Inputs == Prices \X ShareCounts

\* the engine was given a positive starting capital and every executed
\* trade had a positive share count
OrdinaryUse ==
    /\ metrics_.starting_capital > 0
    /\ \A i \in 1..Len(portfolio_.trade_history) :
           portfolio_.trade_history[i].shares > 0

\* C1: in every state reachable from a fresh engine by execute_buy and
\* execute_sell calls with any price and any integer share count, cash >= 0
\* and shares_held >= 0.
C1_CashAndSharesNonNegative ==
    portfolio_.cash >= 0 /\ portfolio_.shares_held >= 0

\* C2: execute_buy called with cash < price*shares is a no-op: cash,
\* shares_held, last_buy_price, trade_history and daily_values are unchanged.
C2_UnaffordableBuyIsNoOp ==
    \A in \in Inputs :
        portfolio_.cash < in[1] * in[2]
            => execute_buy(portfolio_, in[1], in[2]) = portfolio_

C2_Witness ==
    /\ call.op = "buy"
    /\ call.cash0 < call.price * call.shares
    /\ call.shares > 0
    /\ portfolio_.trade_history # <<>>

\* C3: execute_sell called with shares > shares_held is a no-op: cash,
\* shares_held, last_buy_price, trade_history and daily_values are unchanged.
C3_OversizedSellIsNoOp ==
    \A in \in Inputs :
        in[2] > portfolio_.shares_held
            => execute_sell(portfolio_, in[1], in[2]) = portfolio_

C3_Witness ==
    /\ call.op = "sell"
    /\ call.shares > call.shares0
    /\ call.shares0 >= 0
    /\ portfolio_.trade_history # <<>>

\* C4: execute_buy succeeds exactly when cash >= price*shares; on success
\* cash decreases by price*shares, shares_held increases by shares and exactly
\* one Trade (BUY, price, shares, price*shares) is appended to trade_history,
\* the earlier entries being unchanged; otherwise nothing is appended.
C4_BuyEffect ==
    \A in \in Inputs :
        LET price == in[1]
            shares == in[2]
            q == execute_buy(portfolio_, price, shares)
        IN  IF portfolio_.cash >= price * shares
            THEN /\ q.cash = portfolio_.cash - price * shares
                 /\ q.shares_held = portfolio_.shares_held + shares
                 /\ q.trade_history =
                        portfolio_.trade_history \o
                        <<[action |-> "BUY", price |-> price, shares |-> shares,
                           value |-> price * shares]>>
            ELSE q.trade_history = portfolio_.trade_history

C4_Witness ==
    /\ call.op = "buy"
    /\ call.shares > 0
    /\ call.cash0 >= call.price * call.shares
    /\ Len(portfolio_.trade_history) >= 2
    /\ portfolio_.cash = call.cash0 - call.price * call.shares

\* C5: execute_sell succeeds exactly when shares_held >= shares; on success
\* cash increases by price*shares, shares_held decreases by shares and exactly
\* one Trade (SELL, price, shares, price*shares) is appended to trade_history,
\* the earlier entries being unchanged; otherwise nothing is appended.
C5_SellEffect ==
    \A in \in Inputs :
        LET price == in[1]
            shares == in[2]
            q == execute_sell(portfolio_, price, shares)
        IN  IF portfolio_.shares_held >= shares
            THEN /\ q.cash = portfolio_.cash + price * shares
                 /\ q.shares_held = portfolio_.shares_held - shares
                 /\ q.trade_history =
                        portfolio_.trade_history \o
                        <<[action |-> "SELL", price |-> price, shares |-> shares,
                           value |-> price * shares]>>
            ELSE q.trade_history = portfolio_.trade_history

C5_Witness ==
    /\ call.op = "sell"
    /\ call.shares > 0
    /\ call.shares0 >= call.shares
    /\ Len(portfolio_.trade_history) >= 2
    /\ portfolio_.cash = call.cash0 + call.price * call.shares

\* C6 as stated: from any reachable state, execute_buy(p, n) immediately
\* followed by execute_sell(p, n) leaves cash and shares_held as they were
\* before the buy.  Stated for the round trips with n > 0 in ordinary use,
\* which are among the cases of the claim.
C6_RoundTripRestores ==
    (call.op = "buy_sell" /\ call.shares > 0 /\ OrdinaryUse)
        => /\ portfolio_.cash = call.cash0
           /\ portfolio_.shares_held = call.shares0

\* C6 amended: when the buy is executed (cash >= p*n) and the sell that
\* follows it is executed (shares_held after the buy >= n), or when both
\* are rejected, cash and shares_held are as they were before the buy.
C6_RoundTripRestoresWhenBothExecute ==
    call.op = "buy_sell"
        => LET bought == call.cash0 >= call.price * call.shares
               held == IF bought THEN call.shares0 + call.shares ELSE call.shares0
               sold == held >= call.shares
           IN  (bought <=> sold)
                   => /\ portfolio_.cash = call.cash0
                      /\ portfolio_.shares_held = call.shares0

C6_Witness ==
    /\ call.op = "buy_sell"
    /\ call.shares > 0
    /\ call.cash0 >= call.price * call.shares
    /\ Len(portfolio_.trade_history) >= 2
    /\ portfolio_.trade_history[Len(portfolio_.trade_history)].action = "SELL"
    /\ portfolio_.trade_history[Len(portfolio_.trade_history) - 1].action = "BUY"

(***************************************************************************)
(* Properties of BacktestEngine::calculate_final_metrics                   *)
(***************************************************************************)
\* C7 as stated: metrics_.total_trades equals trade_history.size() in every
\* state of the engine, under any interleaving of execute_buy, execute_sell
\* and calculate_final_metrics.  Stated for the states of ordinary use,
\* which are among the cases of the claim.
C7_TotalTradesAlwaysHistorySize ==
    OrdinaryUse => metrics_.total_trades = Len(portfolio_.trade_history)

\* C7 amended: total_trades equals trade_history.size() in the state a
\* calculate_final_metrics call leaves (and in the initial state); between
\* calls it is the size at the last call, never more than the current size.
C7_TotalTradesAfterCalculate ==
    /\ call.op \in {"new", "calc"}
           => metrics_.total_trades = Len(portfolio_.trade_history)
    /\ metrics_.total_trades <= Len(portfolio_.trade_history)

C7_Witness ==
    /\ call.op = "calc"
    /\ Len(portfolio_.trade_history) >= 2
    /\ metrics_.total_trades = Len(portfolio_.trade_history)

IsIncreasing(values) ==
    \A i \in 1..(Len(values) - 1) : values[i] < values[i + 1]

\* C8 as stated: for every monotonically increasing daily_values sequence
\* and every starting capital, calculate_final_metrics sets
\* max_drawdown_pct to 0.  Stated for the sequences of two or more values
\* and the positive starting capitals, which are among the cases of the
\* claim.
C8_IncreasingValuesNoDrawdown ==
    (/\ call.op = "calc"
     /\ Len(portfolio_.daily_values) >= 2
     /\ IsIncreasing(portfolio_.daily_values)
     /\ metrics_.starting_capital > 0)
        => metrics_.max_drawdown_pct = R(0)

\* C8 amended: for every monotonically increasing daily_values sequence
\* whose first value is not below the starting capital (and for the empty
\* sequence), calculate_final_metrics sets max_drawdown_pct to 0.
C8_IncreasingFromStartNoDrawdown ==
    (/\ call.op = "calc"
     /\ IsIncreasing(portfolio_.daily_values)
     /\ \/ portfolio_.daily_values = <<>>
        \/ portfolio_.daily_values[1] >= metrics_.starting_capital)
        => metrics_.max_drawdown_pct = R(0)

C8_Witness ==
    /\ call.op = "calc"
    /\ Len(portfolio_.daily_values) >= 2
    /\ IsIncreasing(portfolio_.daily_values)
    /\ metrics_.starting_capital > 0
    /\ portfolio_.daily_values[1] >= metrics_.starting_capital
    /\ metrics_.max_drawdown_pct = R(0)

\* C9: after every call of calculate_final_metrics, also one that follows
\* an earlier call with a different final price, sharpe_ratio equals
\* (total_return_pct - 2)/15 when total_return_pct > 2 and 0 otherwise.
\* Stated for the calls made in ordinary use, which are among the cases of
\* the claim.
C9_SharpeFollowsReturn ==
    (call.op = "calc" /\ OrdinaryUse)
        => metrics_.sharpe_ratio =
               IF RGt(metrics_.total_return_pct, R(2))
               THEN RDiv(RSub(metrics_.total_return_pct, R(2)), R(15))
               ELSE R(0)

\* C10: calculate_final_metrics sets profit_factor to total_wins/total_losses
\* when total_losses > 0 and to 0 when no losses were recorded; one Buy of
\* 100 shares at 10 followed by one Sell of 100 shares at 15 gives one
\* winning cycle of pnl 500: winning_trades = 1, losing_trades = 0,
\* win_rate_pct = 100, profit_factor = 0.
Scenario5 ==
    <<[action |-> "BUY", price |-> 10, shares |-> 100, value |-> 1000],
      [action |-> "SELL", price |-> 15, shares |-> 100, value |-> 1500]>>

C10_ProfitFactor ==
    call.op = "calc"
        => LET c == TradeCycles(portfolio_.trade_history)
           IN  /\ metrics_.profit_factor =
                      IF RGt(c.total_losses, R(0))
                      THEN RDiv(c.total_wins, c.total_losses)
                      ELSE R(0)
               /\ portfolio_.trade_history = Scenario5
                      => /\ metrics_.winning_trades = 1
                         /\ metrics_.losing_trades = 0
                         /\ metrics_.avg_win = R(500)
                         /\ metrics_.win_rate_pct = R(100)
                         /\ metrics_.profit_factor = R(0)

C10_Witness ==
    /\ call.op = "calc"
    /\ portfolio_.trade_history = Scenario5
    /\ metrics_.winning_trades = 1
    /\ metrics_.profit_factor = R(0)

\* a history with recorded wins and losses, where profit_factor is a
\* proper quotient
C10_WitnessQuotient ==
    /\ call.op = "calc"
    /\ RGt(metrics_.profit_factor, R(1))

\* C11: after calculate_final_metrics, when the history holds at least one
\* completed sell cycle, win_rate_pct = 100 * winning_trades /
\* (winning_trades + losing_trades), avg_win = total_wins / winning_trades
\* and avg_loss = total_losses / losing_trades, each 0 when its bucket is
\* empty; when the history holds no completed cycle (empty, or buys only),
\* win_rate_pct, avg_win, avg_loss and profit_factor are 0.
C11_TradeStatistics ==
    call.op = "calc"
        => LET c == TradeCycles(portfolio_.trade_history)
               w == metrics_.winning_trades
               l == metrics_.losing_trades
           IN  IF c.completed_trades > 0
               THEN /\ w + l > 0
                    /\ metrics_.win_rate_pct = RDiv(R(100 * w), R(w + l))
                    /\ metrics_.avg_win =
                           IF w > 0 THEN RDiv(c.total_wins, R(w)) ELSE R(0)
                    /\ metrics_.avg_loss =
                           IF l > 0 THEN RDiv(c.total_losses, R(l)) ELSE R(0)
               ELSE /\ metrics_.win_rate_pct = R(0)
                    /\ metrics_.avg_win = R(0)
                    /\ metrics_.avg_loss = R(0)
                    /\ metrics_.profit_factor = R(0)

\* one winning and one losing cycle: the win rate is 50
C11_Witness ==
    /\ call.op = "calc"
    /\ metrics_.winning_trades = 1
    /\ metrics_.losing_trades = 1
    /\ metrics_.win_rate_pct = R(50)

\* metrics computed over a history of buys only
C11_WitnessNoCycle ==
    /\ call.op = "calc"
    /\ Len(portfolio_.trade_history) > 0
    /\ TradeCycles(portfolio_.trade_history).completed_trades = 0
    /\ metrics_.win_rate_pct = R(0)

(***************************************************************************)
(* Properties of the indicators                                            *)
(***************************************************************************)
\* C17: for every price sequence fed to RSI.update, the value of the RSI
\* in every reachable state and every value update returns lie in
\* [0, 100].
C17_RSIWithinRange ==
    /\ RGe(RSI_value(strategy_.rsi_), R(0))
    /\ RLe(RSI_value(strategy_.rsi_), R(100))
    /\ ret.op = "update"
           => /\ RGe(ret.out.rsi, R(0))
              /\ RLe(ret.out.rsi, R(100))

\* gains outweigh losses without excluding them
C17_Witness ==
    /\ ret.op = "update"
    /\ RGt(ret.out.rsi, R(50))
    /\ RLt(ret.out.rsi, R(100))

\* C18: the first RSI.update after construction or reset stores the price
\* as previous_price, returns 50 and leaves the two EMAs alone; every later
\* update feeds gain = max(change, 0) and loss = max(-change, 0) to the
\* two EMAs, returns 50 when both averages are zero, 100 when only the
\* loss average is zero and 100 - 100 / (1 + avg_gain / avg_loss)
\* otherwise, and stores the price as previous_price.
C18_RSIUpdate ==
    [][ret'.op = "update"
         => LET r == strategy_.rsi_
                r2 == strategy_'.rsi_
                price == ret'.arg
            IN  IF fed = <<>>
                THEN /\ r2.previous_price_ = price
                     /\ ret'.out.rsi = R(50)
                     /\ r2.gains_ema_ = r.gains_ema_
                     /\ r2.losses_ema_ = r.losses_ema_
                     /\ ~r2.gains_ema_.initialized_
                     /\ ~r2.losses_ema_.initialized_
                ELSE LET change == RSub(price, r.previous_price_)
                         gain == IF RGt(change, R(0)) THEN change ELSE R(0)
                         loss == IF RGt(RNeg(change), R(0))
                                 THEN RNeg(change) ELSE R(0)
                         avg_gain == RollingEMA_value(r2.gains_ema_)
                         avg_loss == RollingEMA_value(r2.losses_ema_)
                     IN  /\ r2.gains_ema_ = RollingEMA_update(r.gains_ema_, gain)
                         /\ r2.losses_ema_ =
                                RollingEMA_update(r.losses_ema_, loss)
                         /\ ret'.out.rsi =
                                IF avg_gain = R(0) /\ avg_loss = R(0)
                                THEN R(50)
                                ELSE IF avg_loss = R(0) THEN R(100)
                                ELSE RSub(R(100),
                                          RDiv(R(100),
                                               RAdd(R(1), RDiv(avg_gain,
                                                               avg_loss))))
                         /\ RSI_value(r2) = ret'.out.rsi
                         /\ r2.previous_price_ = price]_vars

\* a third or later update after which losses outweigh gains
C18_Witness ==
    /\ ret.op = "update"
    /\ Len(fed) >= 3
    /\ RGt(ret.out.rsi, R(0))
    /\ RLt(ret.out.rsi, R(50))

\* C19: whenever BollingerBands.update returns a result computed from a
\* full window of period prices, upper >= middle >= lower, middle is the
\* mean of the window, and upper - middle = middle - lower = k times the
\* population standard deviation (the non-negative number whose square is
\* the mean squared deviation).
C19_BandsOrdered ==
    (ret.op = "update" /\ Len(fed) >= strategy_.bb_.period_)
        => LET n == strategy_.bb_.period_
               k == strategy_.bb_.std_dev_multiplier_
               window == SubSeq(fed, Len(fed) - n + 1, Len(fed))
               mean == RDiv(RSum(window), R(n))
               variance == RDiv(VarianceSum(window, mean), R(n))
               b == ret.out.bb
               half == RSub(b.upper_band, b.middle_band)
           IN  /\ RGe(b.upper_band, b.middle_band)
               /\ RGe(b.middle_band, b.lower_band)
               /\ b.middle_band = mean
               /\ half = RSub(b.middle_band, b.lower_band)
               /\ RGe(half, R(0))
               /\ RMul(half, half) = RMul(RMul(k, k), variance)

\* a full window of unequal prices: the bands are apart
C19_Witness ==
    /\ ret.op = "update"
    /\ Len(fed) >= strategy_.bb_.period_
    /\ RGt(ret.out.bb.upper_band, ret.out.bb.middle_band)
    /\ RGt(ret.out.bb.middle_band, ret.out.bb.lower_band)

\* C20: after the j-th update since construction or reset the window of
\* BollingerBands holds the last min(j, period) prices in arrival order;
\* while j < period update returns {0, 0, 0} and is_initialized() is
\* false, and from the period-th update on is_initialized() is true.
C20_Window ==
    LET b == strategy_.bb_
        j == Len(fed)
        n == IF j < b.period_ THEN j ELSE b.period_
    IN  /\ Len(b.price_history_) = n
        /\ b.price_history_ = SubSeq(fed, j - n + 1, j)
        /\ b.initialized_ = (j >= b.period_)
        /\ (ret.op = "update" /\ j < b.period_)
               => ret.out.bb = BollingerBandsResult(R(0), R(0), R(0))

\* the window is full and its oldest price was evicted
C20_Witness ==
    /\ ret.op = "update"
    /\ Len(fed) > strategy_.bb_.period_
    /\ fed[1] # fed[Len(fed)]
    /\ strategy_.bb_.initialized_

\* an update that leaves the window short
C20_WitnessShort ==
    /\ ret.op = "update"
    /\ Len(fed) < strategy_.bb_.period_
    /\ ~strategy_.bb_.initialized_

(***************************************************************************)
(* Properties of the strategy                                              *)
(***************************************************************************)
\* the last call returned StrategyResults computed from prices:
\* generate_signal with a quote, or backtest()
EmitsResults ==
    \/ ret.op = "backtest"
    \/ ret.op = "generate_signal" /\ ret.arg # <<>>

C12_WitnessSellHold ==
    /\ ret.op = "backtest"
    /\ \E i, j \in 1..Len(ret.out) :
           ret.out[i].signal = "SELL" /\ ret.out[j].signal = "HOLD"

\* C13: every confidence calculate_confidence computes for a
\* StrategyResult lies in [0.5, 0.95] and is 0.5 + 0.45 * the weighted
\* mean of four factor scores, each in [0, 1], with weights 0.35, 0.30,
\* 0.20 and 0.15.
C13_ConfidenceRange ==
    EmitsResults
        => \A i \in 1..Len(ret.out) :
               LET r == ret.out[i]
                   scores ==
                       <<rsi_score(r.rsi_value),
                         bb_score(r.current_price, r.bb_upper, r.bb_lower),
                         trend_score(r.current_price, r.ema_value),
                         vol_score(r.bb_upper, r.bb_middle, r.bb_lower)>>
                   weights == <<<<35, 100>>, <<30, 100>>, <<20, 100>>,
                                <<15, 100>>>>
                   mean == RDiv(RSum([k \in 1..4 |->
                                         RMul(scores[k], weights[k])]),
                                RSum(weights))
               IN  /\ RGe(r.confidence, <<1, 2>>)
                   /\ RLe(r.confidence, <<95, 100>>)
                   /\ \A k \in 1..4 :
                          RGe(scores[k], R(0)) /\ RLe(scores[k], R(1))
                   /\ r.confidence = RAdd(<<1, 2>>, RMul(<<45, 100>>, mean))

\* a confidence to which a capped volatility factor and a partial trend
\* factor contribute
C13_Witness ==
    /\ EmitsResults
    /\ \E i \in 1..Len(ret.out) :
           LET r == ret.out[i]
           IN  /\ vol_score(r.bb_upper, r.bb_middle, r.bb_lower) = R(1)
               /\ RGt(trend_score(r.current_price, r.ema_value), R(0))
               /\ RGt(r.confidence, <<13, 20>>)
               /\ RLt(r.confidence, <<19, 20>>)

\* C14: backtest() over n > 0 bars resets the three indicators, feeds the
\* first w = min(20, floor(n / 2)) closes without emitting, and returns
\* exactly n - w results, the i-th computed from the closes of bars
\* 1..w+i fed to fresh indicators and carrying the close of bar w+i as
\* current_price; over n = 0 bars it returns no result.
C14_BacktestResults ==
    ret.op = "backtest"
        => LET bars == ret.arg
               n == Len(bars)
               w == IF n \div 2 < 20 THEN n \div 2 ELSE 20
           IN  /\ Len(ret.out) = n - w
               /\ \A i \in 1..Len(ret.out) :
                      LET seen == FeedAll(ResetAll(strategy_),
                                          SubSeq(bars, 1, w + i))
                      IN  /\ ret.out[i].current_price = bars[w + i]
                          /\ ret.out[i].ema_value = RollingEMA_value(seen.ema_)
                          /\ ret.out[i].rsi_value = RSI_value(seen.rsi_)
                          /\ ret.out[i].bb_middle =
                                 BollingerBands_value(seen.bb_).middle_band
               /\ n = 0 => ret.out = <<>>

\* a backtest over the long history: the warm-up stops at 20 bars
C14_Witness ==
    /\ ret.op = "backtest"
    /\ Len(ret.arg) = LongBars
    /\ Len(ret.out) = LongBars - 20

\* a backtest over an odd number of unequal bars
C14_WitnessShort ==
    /\ ret.op = "backtest"
    /\ Len(ret.arg) = 3
    /\ Len(ret.out) = 2
    /\ ret.out[1].current_price # ret.out[2].current_price

\* C15: set_confidence_threshold(t) replaces the confidence threshold
\* when 0 < t <= 1 and leaves the strategy unchanged otherwise;
\* generate_signal and backtest() leave the threshold alone and emit Buy
\* or Sell exactly for the results whose RSI is beyond a threshold and
\* whose confidence reaches the threshold configured when they are called.
C15_ConfidenceThreshold ==
    [][/\ ret'.op = "set_confidence_threshold"
           => LET t == ret'.arg
              IN  strategy_' =
                      IF RGt(t, R(0)) /\ RLe(t, R(1))
                      THEN [strategy_ EXCEPT !.confidence_threshold_ = t]
                      ELSE strategy_
       /\ (\/ ret'.op = "backtest"
           \/ ret'.op = "generate_signal" /\ ret'.arg # <<>>)
           => /\ strategy_'.confidence_threshold_ =
                     strategy_.confidence_threshold_
              /\ \A i \in 1..Len(ret'.out) :
                     LET r == ret'.out[i]
                     IN  (r.signal \in {"BUY", "SELL"})
                             = (/\ \/ RLt(r.rsi_value,
                                          R(strategy_.rsi_oversold_threshold_))
                                   \/ RGt(r.rsi_value,
                                          R(strategy_.rsi_overbought_threshold_))
                                /\ RGe(r.confidence,
                                       strategy_.confidence_threshold_))]_vars

\* a threshold of 0.9 was set, and a later generate_signal holds on an
\* oversold RSI whose confidence reaches the constructor's 0.65
C15_Witness ==
    /\ ret.op = "generate_signal"
    /\ ret.arg # <<>>
    /\ strategy_.confidence_threshold_ = <<9, 10>>
    /\ ret.out[1].signal = "HOLD"
    /\ RLt(ret.out[1].rsi_value, R(strategy_.rsi_oversold_threshold_))
    /\ RGe(ret.out[1].confidence, <<13, 20>>)

\* a threshold above 1 was passed and the configured one kept
C15_WitnessRejected ==
    /\ ret.op = "set_confidence_threshold"
    /\ ret.arg = <<3, 2>>
    /\ strategy_.confidence_threshold_ = <<13, 20>>

\* C16: without a quote generate_signal returns a Hold of confidence 0
\* with a non-empty reason.
C16_NoQuoteHolds ==
    (ret.op = "generate_signal" /\ ret.arg = <<>>)
        => /\ Len(ret.out) = 1
           /\ ret.out[1].signal = "HOLD"
           /\ ret.out[1].confidence = R(0)
           /\ ret.out[1].reason # ""

\* no quote arrives at a strategy whose indicators were fed before
C16_Witness ==
    /\ ret.op = "generate_signal"
    /\ ret.arg = <<>>
    /\ fed # <<>>
    /\ ret.out[1].signal = "HOLD"

(***************************************************************************)
(* Further properties of the indicators                                    *)
(***************************************************************************)
\* the prices of concrete scenario 1 and the values EMA(period = 3) is to
\* return for them
Scenario1 == <<R(10), R(20), R(30)>>

Scenario1Outputs == <<R(10), R(15), <<45, 2>>>>

\* C21: RollingEMA(period) has alpha = 2 / (period + 1) from construction
\* on; its first update after construction or reset returns the price and
\* every later update returns alpha * price + (1 - alpha) * previous_ema;
\* EMA(period = 3) fed 10, 20, 30 returns 10, 15, 22.5.
C21_EMAUpdate ==
    /\ ret.op = "new"
           => strategy_.ema_.alpha_ = RDiv(R(2), R(ret.arg.ema_period + 1))
    /\ [][/\ strategy_'.ema_.alpha_ = strategy_.ema_.alpha_
          /\ ret'.op = "update"
                 => LET e == strategy_.ema_
                        alpha == e.alpha_
                        price == ret'.arg
                    IN  /\ ret'.out.ema =
                               IF fed = <<>> THEN price
                               ELSE RAdd(RMul(alpha, price),
                                         RMul(RSub(R(1), alpha),
                                              RollingEMA_value(e)))
                        /\ RollingEMA_value(strategy_'.ema_) = ret'.out.ema
                        /\ RollingEMA_is_initialized(strategy_'.ema_)
                        /\ \A k \in 1..3 :
                               (/\ alpha = RDiv(R(2), R(3 + 1))
                                /\ fed' = SubSeq(Scenario1, 1, k))
                                   => ret'.out.ema = Scenario1Outputs[k]]_vars

\* scenario 1 was fed to an EMA of period 3
C21_Witness ==
    /\ ret.op = "update"
    /\ fed = Scenario1
    /\ strategy_.ema_.alpha_ = <<1, 2>>
    /\ ret.out.ema = <<45, 2>>

\* a later update of the EMA of period 20, whose alpha is 2/21
C21_WitnessDefault ==
    /\ ret.op = "update"
    /\ Len(fed) >= 3
    /\ strategy_.ema_.alpha_ = <<2, 21>>
    /\ fed[1] # fed[2]

\* the period a RollingEMA was constructed with
PeriodOf(e) ==
    CHOOSE period \in 1..DefaultConfig.ema_period :
        smoothing_factor(period) = e.alpha_

\* the three indicators of s freshly constructed with the parameters of
\* those of s
FreshIndicators(s) ==
    [s EXCEPT !.ema_ = RollingEMA(PeriodOf(s.ema_)),
              !.rsi_ = RSI(PeriodOf(s.rsi_.gains_ema_)),
              !.bb_ = BollingerBands(s.bb_.period_, s.bb_.std_dev_multiplier_)]

\* what a caller reads from the three indicators of s: value() and
\* is_initialized()
Readings(s) ==
    [ema |-> RollingEMA_value(s.ema_),
     rsi |-> RSI_value(s.rsi_),
     bb |-> BollingerBands_value(s.bb_),
     ema_initialized |-> RollingEMA_is_initialized(s.ema_),
     rsi_initialized |-> RSI_is_initialized(s.rsi_),
     bb_initialized |-> BollingerBands_is_initialized(s.bb_)]

\* what the update calls return and what a caller reads after each of
\* them, for a stream of prices fed to the three indicators of s
RECURSIVE Outputs(_, _)
Outputs(s, stream) ==
    IF stream = <<>> THEN <<>>
    ELSE LET price == stream[1]
         IN  Then(UpdateIndicators(s, price),
                  LAMBDA updated :
                      <<[returned |->
                             [ema |-> RollingEMA_value(updated.ema_),
                              rsi |-> RSI_value(updated.rsi_),
                              bb |-> BollingerBands_update_result(s.bb_,
                                                                  price)],
                         read |-> Readings(updated)]>>
                          \o Outputs(updated, Tail(stream)))

\* everything a caller observes of the indicators of s from now on
Observed(s, stream) == <<Readings(s)>> \o Outputs(s, stream)

\* the further price streams: StreamLen prices, each 90 or 100 (what is
\* observed of a shorter stream is a prefix of what is observed of these)
StreamLen == 3

Streams ==
    {[i \in 1..StreamLen |-> R(h[i])] :
        h \in {q \in SeqsUpTo(BarCloses, StreamLen) : Len(q) = StreamLen}}

\* C22: for RollingEMA, RSI and BollingerBands, after any sequence of
\* updates reset() leaves the indicator in a state from which every
\* further price stream gives the same outputs and is_initialized()
\* values as it gives from a freshly constructed indicator with the same
\* parameters (which are those the strategy was constructed with).
C22_ResetEquivalence ==
    LET fresh == FreshIndicators(strategy_)
    IN  /\ fresh = MeanReversionStrategy(
                       [ema_period |-> PeriodOf(strategy_.ema_),
                        rsi_period |-> PeriodOf(strategy_.rsi_.gains_ema_),
                        bb_period |-> strategy_.bb_.period_,
                        bb_std_dev |-> strategy_.bb_.std_dev_multiplier_,
                        rsi_oversold |-> strategy_.rsi_oversold_threshold_,
                        rsi_overbought |-> strategy_.rsi_overbought_threshold_,
                        confidence |-> strategy_.confidence_threshold_])
        /\ ret.op = "reset"
               => \A stream \in Streams :
                      Observed(strategy_, stream) = Observed(fresh, stream)

\* a reset of indicators that had all been fed into their initialised
\* states
C22_Witness ==
    /\ ret.op = "reset"
    /\ ret.arg >= 3
    /\ strategy_.bb_.period_ = 2
    /\ \E stream \in Streams :
           /\ Len(stream) = 3
           /\ Observed(strategy_, stream)[4].read.bb_initialized

\* indicators that behave differently from fresh ones until they are reset
C22_WitnessNeeded ==
    /\ ret.op = "update"
    /\ \E stream \in Streams :
           /\ Observed(strategy_, stream)
                  # Observed(FreshIndicators(strategy_), stream)
           /\ \A k \in 2..Len(stream) + 1 :
                  Observed(strategy_, stream)[k].returned
                      # Observed(FreshIndicators(strategy_), stream)[k].returned

(***************************************************************************)
(* Further properties of the engine                                        *)
(***************************************************************************)
\* C23: every Trade in trade_history, after any sequence of execute_buy
\* and execute_sell calls, has action BUY or SELL, a positive share count
\* and value = price * shares.
C23_TradeEntries ==
    \A i \in 1..Len(portfolio_.trade_history) :
        LET trade == portfolio_.trade_history[i]
        IN  /\ trade.action \in {"BUY", "SELL"}
            /\ trade.shares > 0
            /\ trade.value = trade.price * trade.shares

\* the rest of C23: every entry has action BUY or SELL and value = price *
\* shares, and every call leaves the earlier entries as they were, in
\* their order, appending at most one entry per execute_buy or
\* execute_sell.
C23_AppendOnly ==
    [][LET before == portfolio_.trade_history
           after == portfolio_'.trade_history
       IN  /\ Len(after) >= Len(before)
           /\ SubSeq(after, 1, Len(before)) = before
           /\ call'.op \in {"buy", "sell"} => Len(after) <= Len(before) + 1
           /\ \A i \in 1..Len(after) :
                  /\ after[i].action \in {"BUY", "SELL"}
                  /\ after[i].value = after[i].price * after[i].shares]_vars

\* C24: calculate_final_metrics(final_price) leaves the Portfolio
\* unchanged: cash, shares_held, last_buy_price, trade_history and
\* daily_values are after the call what they were before it, and
\* ending_capital = cash + shares_held * final_price is computed from them.
C24_MetricsLeavePortfolio ==
    [][call'.op = "calc"
         => /\ portfolio_'.cash = portfolio_.cash
            /\ portfolio_'.shares_held = portfolio_.shares_held
            /\ portfolio_'.last_buy_price = portfolio_.last_buy_price
            /\ portfolio_'.trade_history = portfolio_.trade_history
            /\ portfolio_'.daily_values = portfolio_.daily_values
            /\ metrics_'.ending_capital =
                   portfolio_.cash + portfolio_.shares_held * call'.price
            /\ metrics_'.ending_capital =
                   portfolio_'.cash + portfolio_'.shares_held * call'.price]_vars

\* metrics computed while a position bought in two trades is open
C24_Witness ==
    /\ call.op = "calc"
    /\ portfolio_.shares_held > 0
    /\ Len(portfolio_.trade_history) >= 2
    /\ portfolio_.cash > 0
    /\ metrics_.ending_capital =
           portfolio_.cash + portfolio_.shares_held * call.price

\* the locals of the trade-cycle loop after its first k iterations
WalkAfter(history, k) == TradeCycles(SubSeq(history, 1, k))

\* the k-th trade is a Sell met while the running position is positive
CountedSell(history, k) ==
    /\ history[k].action = "SELL"
    /\ WalkAfter(history, k - 1).current_shares > 0

\* C25: in the trade-cycle walk of calculate_final_metrics, a counted Sell
\* of s shares out of a running position of n shares with cost c adds
\* pnl = (sell_price - c / n) * s to the wins or the losses and leaves the
\* running cost at c * (n - s) / n: the average cost of a remaining share
\* is unchanged, and the running cost is 0 when the running share count
\* reaches 0.
C25_WeightedAverageCost ==
    LET history == portfolio_.trade_history
    IN  \A k \in 1..Len(history) :
            CountedSell(history, k)
                => LET before == WalkAfter(history, k - 1)
                       after == WalkAfter(history, k)
                       n == before.current_shares
                       c == before.current_position_cost
                       s == history[k].shares
                       pnl == RMul(RSub(R(history[k].price), RDiv(c, R(n))),
                                   R(s))
                   IN  /\ after.current_shares = n - s
                       /\ after.current_position_cost =
                              RDiv(RMul(c, R(n - s)), R(n))
                       /\ IF RGt(pnl, R(0))
                          THEN /\ after.total_wins = RAdd(before.total_wins, pnl)
                               /\ after.total_losses = before.total_losses
                          ELSE /\ after.total_wins = before.total_wins
                               /\ after.total_losses =
                                      RAdd(before.total_losses, RAbs(pnl))
                       /\ n - s # 0
                              => RDiv(after.current_position_cost, R(n - s))
                                     = RDiv(c, R(n))
                       /\ n - s = 0 => after.current_position_cost = R(0)

\* half of a position bought at two prices is sold: 100 shares that cost
\* 1250 become 50 shares that cost 625
C25_Witness ==
    LET history == portfolio_.trade_history
    IN  /\ call.op = "calc"
        /\ Len(history) = 3
        /\ CountedSell(history, 3)
        /\ history[1].price # history[2].price
        /\ WalkAfter(history, 2).current_shares = 100
        /\ WalkAfter(history, 2).current_position_cost = R(1250)
        /\ WalkAfter(history, 3).current_shares = 50
        /\ WalkAfter(history, 3).current_position_cost = R(625)

(***************************************************************************)
(* Further properties of the strategy                                      *)
(***************************************************************************)
\* the strategy has the thresholds of the simplified constructor
DefaultThresholds ==
    /\ strategy_.rsi_oversold_threshold_ = DefaultConfig.rsi_oversold
    /\ strategy_.rsi_overbought_threshold_ = DefaultConfig.rsi_overbought
    /\ strategy_.confidence_threshold_ = DefaultConfig.confidence

\* C26: backtest() never emits a Buy or Sell for a bar processed while the
\* Bollinger window is not yet full, that is for a bar among the first
\* bb_period - 1 bars of the history, whatever the length of the history.
\* Stated for the strategies with the default thresholds, which are among
\* the cases of the claim.
C26_NoSignalBeforeBandsReady ==
    (ret.op = "backtest" /\ DefaultThresholds)
        => LET n == Len(ret.arg)
               w == IF n \div 2 < 20 THEN n \div 2 ELSE 20
           IN  \A i \in 1..Len(ret.out) :
                   w + i < strategy_.bb_.period_
                       => ret.out[i].signal \notin {"BUY", "SELL"}

\* signal, confidence and indicator snapshot of a StrategyResult
Snapshot(r) ==
    [signal |-> r.signal, confidence |-> r.confidence,
     current_price |-> r.current_price, ema_value |-> r.ema_value,
     rsi_value |-> r.rsi_value, bb_upper |-> r.bb_upper,
     bb_middle |-> r.bb_middle, bb_lower |-> r.bb_lower]

\* a quote whose mid price is the close of a bar
QuoteAt(close) == <<Quote(close[1], close[1])>>

\* C27: for every bar after the warm-up prefix, backtest() produces the
\* signal, confidence and indicator snapshot that generate_signal returns
\* for the same price when called on freshly reset indicators that were
\* fed the preceding prices, under the same thresholds.
C27_BacktestAsGenerateSignal ==
    ret.op = "backtest"
        => LET bars == ret.arg
               n == Len(bars)
               w == IF n \div 2 < 20 THEN n \div 2 ELSE 20
           IN  /\ Len(ret.out) = n - w
               /\ \A i \in 1..Len(ret.out) :
                      LET seen == FeedAll(ResetAll(strategy_),
                                          SubSeq(bars, 1, w + i - 1))
                          live == generate_signal(seen, QuoteAt(bars[w + i]),
                                                  R(0))
                      IN  /\ mid_price(QuoteAt(bars[w + i])[1]) = bars[w + i]
                          /\ Snapshot(ret.out[i]) = Snapshot(live.result)

\* a backtest of two or more results with a Buy or Sell computed from a
\* full Bollinger window
C27_Witness ==
    /\ ret.op = "backtest"
    /\ Len(ret.out) >= 2
    /\ \E j \in 1..Len(ret.out) :
           /\ ret.out[j].signal \in {"BUY", "SELL"}
           /\ RGt(ret.out[j].bb_upper, ret.out[j].bb_lower)

\* a backtest with a Hold on an RSI beyond a threshold, for want of
\* confidence
C27_WitnessHeld ==
    /\ ret.op = "backtest"
    /\ \E i \in 1..Len(ret.out) :
           /\ ret.out[i].signal = "HOLD"
           /\ \/ RLt(ret.out[i].rsi_value, R(strategy_.rsi_oversold_threshold_))
              \/ RGt(ret.out[i].rsi_value,
                     R(strategy_.rsi_overbought_threshold_))

\* C28: what backtest() returns depends on the stored historical bars and
\* the thresholds only, not on the state of the indicators before the
\* call: after the warm-up of a load, after generate_signal calls and after
\* an earlier backtest it returns what a strategy with the same bars and
\* thresholds and freshly constructed indicators returns.
C28_BacktestIgnoresIndicatorState ==
    LET fresh == backtest(FreshIndicators(strategy_)).results
    IN  /\ backtest(strategy_).results = fresh
        /\ ret.op = "backtest" => ret.out = fresh

\* a backtest that emitted a Buy or a Sell
C28_Witness ==
    /\ ret.op = "backtest"
    /\ Len(ret.out) >= 2
    /\ \E i \in 1..Len(ret.out) : ret.out[i].signal \in {"BUY", "SELL"}
    /\ ret.out = backtest(strategy_).results

\* a strategy about to be backtested whose indicators have seen a loaded
\* history and then a quote
C28_WitnessAfterQuote ==
    /\ ret.op = "generate_signal"
    /\ ret.arg # <<>>
    /\ Len(strategy_.historical_bars_) >= 2
    /\ Len(fed) > Len(strategy_.historical_bars_)
    /\ \E i \in 1..Len(backtest(strategy_).results) :
           backtest(strategy_).results[i].signal \in {"BUY", "SELL"}

(***************************************************************************)
(* The accounting of the engine                                            *)
(***************************************************************************)
\* the sum of field f over the trades of the history with the given action
RECURSIVE SumOver(_, _, _)
SumOver(history, action, f) ==
    IF history = <<>> THEN 0
    ELSE (IF history[1].action = action THEN history[1][f] ELSE 0)
             + SumOver(Tail(history), action, f)

\* C29: in every state reached from a fresh BacktestEngine by execute_buy
\* and execute_sell calls, cash = starting_capital - the values of the BUY
\* trades + the values of the SELL trades and shares_held = the shares of
\* the BUY trades - the shares of the SELL trades; the running share count
\* of the calculate_final_metrics walk is shares_held at the end of the
\* walk and is never negative during it.
C29_AccountingIdentity ==
    LET history == portfolio_.trade_history
    IN  /\ portfolio_.cash =
               metrics_.starting_capital - SumOver(history, "BUY", "value")
                   + SumOver(history, "SELL", "value")
        /\ portfolio_.shares_held =
               SumOver(history, "BUY", "shares")
                   - SumOver(history, "SELL", "shares")
        /\ TradeCycles(history).current_shares = portfolio_.shares_held
        /\ \A k \in 0..Len(history) : WalkAfter(history, k).current_shares >= 0

\* the two sums of C29 alone
C29_CashAndSharesSums ==
    LET history == portfolio_.trade_history
    IN  /\ portfolio_.cash =
               metrics_.starting_capital - SumOver(history, "BUY", "value")
                   + SumOver(history, "SELL", "value")
        /\ portfolio_.shares_held =
               SumOver(history, "BUY", "shares")
                   - SumOver(history, "SELL", "shares")

\* the profit or loss of the k-th trade, a counted Sell: the sell price less
\* the average cost of a share of the running position, times the shares sold
SellPnl(history, k) ==
    LET before == WalkAfter(history, k - 1)
    IN  RMul(RSub(R(history[k].price),
                  RDiv(before.current_position_cost, R(before.current_shares))),
             R(history[k].shares))

\* the counted Sells of a history
CountedSells(history) ==
    {k \in 1..Len(history) : CountedSell(history, k)}

\* C30: after every call of calculate_final_metrics, winning_trades is the
\* number of Sells met while the running position is positive whose pnl is
\* greater than 0 and losing_trades is the number of all other such Sells,
\* so a break-even Sell (pnl = 0, a Sell of 0 shares included) is a losing
\* trade, the two counters add up to the number of such Sells, and nothing
\* of an earlier call is carried into them.
C30_CompletedCycles ==
    LET history == portfolio_.trade_history
        wins == {k \in CountedSells(history) : RGt(SellPnl(history, k), R(0))}
    IN  call.op = "calc"
            => /\ metrics_.winning_trades = Cardinality(wins)
               /\ metrics_.losing_trades =
                      Cardinality(CountedSells(history) \ wins)
               /\ metrics_.winning_trades + metrics_.losing_trades =
                      Cardinality(CountedSells(history))
               /\ \A k \in CountedSells(history) :
                      SellPnl(history, k) = R(0) => k \notin wins

\* 100 shares bought at 10, then a Sell of 0 shares at 15 and a Sell of the
\* 100 shares at 10: two break-even Sells, two losing trades, no winning one
C30_Witness ==
    LET history == portfolio_.trade_history
    IN  /\ call.op = "calc"
        /\ Len(history) = 3
        /\ CountedSell(history, 2) /\ history[2].shares = 0
        /\ CountedSell(history, 3) /\ history[3].shares > 0
        /\ SellPnl(history, 2) = R(0)
        /\ SellPnl(history, 3) = R(0)
        /\ metrics_.winning_trades = 0
        /\ metrics_.losing_trades = 2

\* a winning and a losing Sell in one history
C30_WitnessMixed ==
    LET history == portfolio_.trade_history
    IN  /\ call.op = "calc"
        /\ metrics_.winning_trades = 1
        /\ metrics_.losing_trades = 1

\* a Sell met with no running position is no completed cycle
C30_WitnessSkipped ==
    LET history == portfolio_.trade_history
    IN  /\ call.op = "calc"
        /\ metrics_.winning_trades = 1
        /\ metrics_.losing_trades = 0
        /\ \E k \in 1..Len(history) :
               history[k].action = "SELL" /\ ~CountedSell(history, k)

====
